---- MODULE Spec2Model ----
(***************************************************************************)
(* Model of the convex limiter of ryujin (Euler::Limiter: reset,           *)
(* accumulate, apply_relaxation, bounds, limit, is_in_invariant_domain)    *)
(* and of the MeshAdaptor's strategy dispatch (prepare, analyze,           *)
(* mark_cells_for_coarsening_and_refinement).                              *)
(*                                                                         *)
(* Number is a binary floating-point type.  It is modelled by a small      *)
(* binary floating-point format: a value is an integer count of the        *)
(* smallest increment 2^-FracBits, it carries at most Digits significant   *)
(* bits, every arithmetic operation rounds its exact result to the        *)
(* nearest such value (ties to even) and saturates at Inf.                 *)
(***************************************************************************)
EXTENDS Integers, Sequences, FiniteSets, Bags, TLC

(* ------------------------------------------------------------------ *)
(* Bounds of the model                                                 *)
(* ------------------------------------------------------------------ *)

\* number of bits after the binary point of the modelled Number
FracBits == 4
\* number of significant bits of the modelled Number
Digits == 5
\* exponent of the largest finite modelled Number
MaxExp == 6
\* largest number of accumulate calls between reset and apply_relaxation
MaxNeighbours == 3

(* ------------------------------------------------------------------ *)
(* Number: floating-point arithmetic                                   *)
(* ------------------------------------------------------------------ *)

\* 1.0 in units of the smallest increment
One == 2 ^ FracBits
\* std::numeric_limits<ScalarNumber>::max()
FltMax == (2 ^ Digits - 1) * 2 ^ MaxExp
\* the value an overflowing operation yields
Inf == 2 ^ (Digits + MaxExp)
\* std::numeric_limits<ScalarNumber>::epsilon(): the gap between 1 and the
\* next value (never below the smallest increment)
Eps == IF FracBits + 1 >= Digits THEN 2 ^ (FracBits + 1 - Digits) ELSE 1

Abs(x) == IF x < 0 THEN -x ELSE x
Sign(x) == IF x < 0 THEN -1 ELSE 1
Min(a, b) == IF b < a THEN b ELSE a
Max(a, b) == IF a < b THEN b ELSE a

\* the sequences over S of length at most n
RECURSIVE SeqsUpTo(_, _)
SeqsUpTo(S, n) ==
  IF n = 0 THEN {<<>>}
  ELSE SeqsUpTo(S, n - 1) \cup
       {Append(t, v) : t \in {u \in SeqsUpTo(S, n - 1) : Len(u) = n - 1}, v \in S}

\* number of bits of the natural number n
RECURSIVE BitLen(_)
BitLen(n) == IF n = 0 THEN 0 ELSE 1 + BitLen(n \div 2)

\* the binary exponent at which the quotient q0 keeps Digits significant bits
Exponent(q0) == IF q0 < 2 ^ Digits THEN 0 ELSE BitLen(q0) - Digits
\* k + rem/D rounded to the nearest integer, ties to even
NearestEven(k, rem, D) ==
  IF 2 * rem > D \/ (2 * rem = D /\ k % 2 = 1) THEN k + 1 ELSE k
\* a/den rounded to a multiple of ulp
RoundTo(a, D, ulp) == NearestEven(a \div D, a % D, D) * ulp
RoundAt(a, den, ulp) == RoundTo(a, den * ulp, ulp)
\* overflow gives infinity
Saturate(v) == IF v > FltMax THEN Inf ELSE v
RoundMagnitude(a, den) == Saturate(RoundAt(a, den, 2 ^ Exponent(a \div den)))
\* The exact quotient num/den (den > 0) rounded to the nearest Number.
Round(num, den) == Sign(num) * RoundMagnitude(Abs(num), den)

FAdd(a, b) == Round(a + b, 1)
FSub(a, b) == Round(a - b, 1)
FMul(a, b) == Round(a * b, One)
\* b # 0
FDiv(a, b) == Round(Sign(b) * a * One, Abs(b))
\* std::sqrt, a >= 0
FSqrt(a) ==
  LET s == CHOOSE s \in 0 .. (a + One) : s * s <= a * One /\ a * One < (s + 1) * (s + 1)
  IN  Round(IF a * One - s * s > s THEN s + 1 ELSE s, 1)
\* dealii::Utilities::fixed_power<3>
fixed_power3(x) == FMul(FMul(x, x), x)

(* ------------------------------------------------------------------ *)
(* The data the limiter reads                                          *)
(* ------------------------------------------------------------------ *)

\* the mesh nodes
Nodes == 1 .. 4

\* state_type: density, momentum (its component along the edge; scaled_c_ij
\* is the component of the edge coefficient along the same axis) and energy
State(rho, m, E) == [rho |-> rho, m |-> m, E |-> E]

\* the state vector U the driver hands to the limiter, by node
U(n) ==
  CASE n = 1 -> State(One, 0, 2 * One)
    [] n = 2 -> State(One, One, 2 * One)
    [] n = 3 -> State(One, 0, 2 * One)
    [] OTHER -> State(2 * One, -4 * One, 6 * One)

\* HyperbolicSystemView::density, ::momentum
density(V) == V.rho
momentum(V) == V.m
\* HyperbolicSystemView::internal_energy: E - 1/2 |m|^2 / rho
internal_energy(V) ==
  FSub(V.E, FDiv(FMul(One \div 2, FMul(V.m, V.m)), V.rho))
\* HyperbolicSystemView::specific_entropy, (gamma - 1) rho_e rho^(-gamma),
\* for the polytropic gas with gamma = 2
specific_entropy(V) == FDiv(internal_energy(V), FMul(V.rho, V.rho))

\* state_type: operator+ and operator* (by a scalar)
StateAdd(V, W) ==
  State(FAdd(V.rho, W.rho), FAdd(V.m, W.m), FAdd(V.E, W.E))
StateScale(V, a) == State(FMul(V.rho, a), FMul(V.m, a), FMul(V.E, a))

\* precomputed_values.get_tensor(i): the specific entropy s_i and a second
\* value eta_i the limiter does not use, computed from U before the limiter runs
get_tensor(n) == [s |-> specific_entropy(U(n)), eta |-> 0]

\* the values of scaled_c_ij the stencil offers
ScaledCs == {-One, One \div 2}
\* the graph viscosity beta_ij of the edge between nodes i and j
beta(i, j) == IF i = 4 \/ j = 4 THEN 3 ELSE One
\* the cell measures hd_i and the relaxation factors of apply_relaxation
CellMeasures == {One \div 4, 4 * One}
Factors == {-One, 0, 2 * One}
\* what an uninitialized Number may hold
Indeterminate == {0, One}

(* ------------------------------------------------------------------ *)
(* Limiter: the bounds accumulator                                     *)
(* ------------------------------------------------------------------ *)

VARIABLES
  dim,                         \* template parameter dim of Limiter<dim, Number>
  bounds_,                     \* Limiter::bounds_: rho_min, rho_max, s_min
  rho_relaxation_numerator,    \* Limiter::rho_relaxation_numerator
  rho_relaxation_denominator,  \* Limiter::rho_relaxation_denominator
  s_interp_max,                \* Limiter::s_interp_max
  phase,     \* the driver's position: "constructed", "accumulating", "relaxed"
  node_i,    \* the node i of the last reset
  visited,   \* bag of the stencil entries given to accumulate since the last reset
  relaxed_with,  \* the arguments hd_i and factor of the last apply_relaxation
  in_domain, \* what the last is_in_invariant_domain returned
  last_op,   \* the operation called last and its node argument (0: none)
  outcome    \* how it ended: "returned" or "threw"

limiter_vars ==
  <<dim, bounds_, rho_relaxation_numerator, rho_relaxation_denominator,
    s_interp_max, phase, node_i, visited, relaxed_with, in_domain,
    last_op, outcome>>

\* a call of an operation with its node or time argument
Call(op, arg) == [op |-> op, arg |-> arg]

Bounds(lo, hi, s) == [rho_min |-> lo, rho_max |-> hi, s_min |-> s]

\* the members of a Limiter as one value
Members(b, num, den, smax) ==
  [bounds |-> b, numerator |-> num, denominator |-> den, s_interp_max |-> smax]

\* reset that forgets to zero s_interp_max
ResetMembers_KeepsInterpMax(i) ==
  Members(Bounds(FltMax, 0, get_tensor(i).s), 0, 0, s_interp_max)

\* Limiter::reset(i)
ResetMembers(i) ==
  Members(Bounds(FltMax, 0, get_tensor(i).s), 0, 0, 0)

\* the edge estimate without the factor 1/2
rho_ij_bar_NoHalf(U_i, U_j, scaled_c_ij) ==
  FAdd(FAdd(density(U_i), density(U_j)),
       FMul(FSub(momentum(U_i), momentum(U_j)), scaled_c_ij))

\* the edge estimate with the momentum difference taken the other way round
rho_ij_bar_Reversed(U_i, U_j, scaled_c_ij) ==
  FMul(One \div 2,
       FAdd(FAdd(density(U_i), density(U_j)),
            FMul(FSub(momentum(U_j), momentum(U_i)), scaled_c_ij)))

\* the edge estimate rho_ij_bar of Limiter::accumulate
rho_ij_bar(U_i, U_j, scaled_c_ij) ==
  FMul(One \div 2,
       FAdd(FAdd(density(U_i), density(U_j)),
            FMul(FSub(momentum(U_i), momentum(U_j)), scaled_c_ij)))

\* accumulate that assigns s_j to s_min instead of taking the minimum
AccumulateMembers_AssignsEntropy(M, js, U_i, U_j, scaled_c_ij, beta_ij) ==
  LET bar == rho_ij_bar(U_i, U_j, scaled_c_ij)
      s_interp == specific_entropy(StateScale(StateAdd(U_i, U_j), One \div 2))
  IN  Members(Bounds(Min(M.bounds.rho_min, bar),
                     Max(M.bounds.rho_max, bar),
                     get_tensor(js).s),
              FAdd(M.numerator,
                   FMul(beta_ij, FAdd(density(U_i), density(U_j)))),
              FAdd(M.denominator, Abs(beta_ij)),
              Max(M.s_interp_max, s_interp))

\* accumulate that takes the larger of s_min and the neighbour's entropy
AccumulateMembers_LargerEntropy(M, js, U_i, U_j, scaled_c_ij, beta_ij) ==
  LET bar == rho_ij_bar(U_i, U_j, scaled_c_ij)
      s_j == get_tensor(js).s
      s_interp == specific_entropy(StateScale(StateAdd(U_i, U_j), One \div 2))
  IN  Members(Bounds(Min(M.bounds.rho_min, bar),
                     Max(M.bounds.rho_max, bar),
                     Max(M.bounds.s_min, s_j)),
              FAdd(M.numerator,
                   FMul(beta_ij, FAdd(density(U_i), density(U_j)))),
              FAdd(M.denominator, Abs(beta_ij)),
              Max(M.s_interp_max, s_interp))

\* Limiter::accumulate(js, U_i, U_j, flux_i, flux_j, scaled_c_ij, beta_ij)
\* applied to the members M
AccumulateMembers(M, js, U_i, U_j, scaled_c_ij, beta_ij) ==
  LET bar == rho_ij_bar(U_i, U_j, scaled_c_ij)
      s_j == get_tensor(js).s
      s_interp == specific_entropy(StateScale(StateAdd(U_i, U_j), One \div 2))
  IN  Members(Bounds(Min(M.bounds.rho_min, bar),
                     Max(M.bounds.rho_max, bar),
                     Min(M.bounds.s_min, s_j)),
              FAdd(M.numerator,
                   FMul(beta_ij, FAdd(density(U_i), density(U_j)))),
              FAdd(M.denominator, Abs(beta_ij)),
              Max(M.s_interp_max, s_interp))

\* r_i = factor * hd_i ^ (3 / (2 dim)) of Limiter::apply_relaxation
relaxation_radius(d, hd_i, factor) ==
  LET r3 == FSqrt(hd_i)
      r == CASE d = 2 -> fixed_power3(FSqrt(r3))
             [] d = 1 -> fixed_power3(r3)
             [] OTHER -> r3
  IN  FMul(r, factor)

\* apply_relaxation that scales rho_min by 1 + r_i and rho_max by 1 - r_i
RelaxMembers_SignsSwapped(M, d, hd_i, factor) ==
  LET r_i == relaxation_radius(d, hd_i, factor)
      rho_relaxation ==
        FDiv(Abs(M.numerator), FAdd(Abs(M.denominator), Eps))
      lo == M.bounds.rho_min
      hi == M.bounds.rho_max
      s == M.bounds.s_min
  IN  Members(Bounds(Max(FMul(FAdd(One, r_i), lo),
                         FSub(lo, FMul(2 * One, rho_relaxation))),
                     Min(FMul(FSub(One, r_i), hi),
                         FAdd(hi, FMul(2 * One, rho_relaxation))),
                     Max(FMul(FSub(One, r_i), s),
                         FSub(FMul(2 * One, s), M.s_interp_max))),
              M.numerator, M.denominator, M.s_interp_max)

\* apply_relaxation that subtracts the relaxation from rho_max as well
RelaxMembers_MaxLowered(M, d, hd_i, factor) ==
  LET r_i == relaxation_radius(d, hd_i, factor)
      rho_relaxation ==
        FDiv(Abs(M.numerator), FAdd(Abs(M.denominator), Eps))
      lo == M.bounds.rho_min
      hi == M.bounds.rho_max
      s == M.bounds.s_min
  IN  Members(Bounds(Max(FMul(FSub(One, r_i), lo),
                         FSub(lo, FMul(2 * One, rho_relaxation))),
                     Min(FMul(FAdd(One, r_i), hi),
                         FSub(hi, FMul(2 * One, rho_relaxation))),
                     Max(FMul(FSub(One, r_i), s),
                         FSub(FMul(2 * One, s), M.s_interp_max))),
              M.numerator, M.denominator, M.s_interp_max)

\* Limiter::apply_relaxation(hd_i, factor) applied to the members M
RelaxMembers(M, d, hd_i, factor) ==
  LET r_i == relaxation_radius(d, hd_i, factor)
      rho_relaxation ==
        FDiv(Abs(M.numerator), FAdd(Abs(M.denominator), Eps))
      lo == M.bounds.rho_min
      hi == M.bounds.rho_max
      s == M.bounds.s_min
  IN  Members(Bounds(Max(FMul(FSub(One, r_i), lo),
                         FSub(lo, FMul(2 * One, rho_relaxation))),
                     Min(FMul(FAdd(One, r_i), hi),
                         FAdd(hi, FMul(2 * One, rho_relaxation))),
                     Max(FMul(FSub(One, r_i), s),
                         FSub(FMul(2 * One, s), M.s_interp_max))),
              M.numerator, M.denominator, M.s_interp_max)

\* the members in the current state
Current ==
  Members(bounds_, rho_relaxation_numerator, rho_relaxation_denominator,
          s_interp_max)

Store(M) ==
  /\ bounds_' = M.bounds
  /\ rho_relaxation_numerator' = M.numerator
  /\ rho_relaxation_denominator' = M.denominator
  /\ s_interp_max' = M.s_interp_max

\* a stencil entry: the neighbour and the edge's coefficient
Entry(js, c) == [js |-> js, scaled_c_ij |-> c]

Args(hd_i, factor) == [hd_i |-> hd_i, factor |-> factor]
NoArgs == Args(0, 0)

\* the constructor initializes neither bounds_ nor the relaxation members
InitLimiter ==
  /\ dim \in {1, 2, 3}
  /\ bounds_ \in [rho_min : Indeterminate, rho_max : Indeterminate,
                  s_min : Indeterminate]
  /\ rho_relaxation_numerator \in Indeterminate
  /\ rho_relaxation_denominator \in Indeterminate
  /\ s_interp_max \in Indeterminate
  /\ phase = "constructed"
  /\ node_i = 1
  /\ visited = EmptyBag
  /\ relaxed_with = NoArgs
  /\ in_domain = TRUE
  /\ last_op = Call("Limiter", 0)
  /\ outcome = "returned"

reset(i) ==
  /\ Store(ResetMembers(i))
  /\ phase' = "accumulating"
  /\ node_i' = i
  /\ visited' = EmptyBag
  /\ relaxed_with' = NoArgs
  /\ last_op' = Call("reset", i)
  /\ outcome' = "returned"
  /\ UNCHANGED <<dim, in_domain>>

accumulate(js, scaled_c_ij) ==
  /\ phase = "accumulating"
  /\ BagCardinality(visited) < MaxNeighbours
  /\ Store(AccumulateMembers(Current, js, U(node_i), U(js), scaled_c_ij,
                             beta(node_i, js)))
  /\ visited' = visited (+) SetToBag({Entry(js, scaled_c_ij)})
  /\ last_op' = Call("accumulate", js)
  /\ outcome' = "returned"
  /\ UNCHANGED <<dim, phase, node_i, relaxed_with, in_domain>>

apply_relaxation(hd_i, factor) ==
  /\ phase = "accumulating"
  /\ Store(RelaxMembers(Current, dim, hd_i, factor))
  /\ phase' = "relaxed"
  /\ relaxed_with' = Args(hd_i, factor)
  /\ last_op' = Call("apply_relaxation", 0)
  /\ outcome' = "returned"
  /\ UNCHANGED <<dim, node_i, visited, in_domain>>

\* Limiter::bounds(): returns a reference to bounds_
bounds ==
  /\ phase = "relaxed"
  /\ last_op' = Call("bounds", 0)
  /\ outcome' = "returned"
  /\ UNCHANGED <<dim, bounds_, rho_relaxation_numerator,
                 rho_relaxation_denominator, s_interp_max, phase, node_i,
                 visited, relaxed_with, in_domain>>

\* Limiter::is_in_invariant_domain(hyperbolic_system, bounds, U), given the
\* relaxed bounds and the state of node n: AssertThrow(false, ...) throws
\* ExcNotImplemented before anything is returned
is_in_invariant_domain(n) ==
  /\ phase = "relaxed"
  /\ last_op' = Call("is_in_invariant_domain", n)
  /\ outcome' = "threw"
  /\ UNCHANGED <<dim, bounds_, rho_relaxation_numerator,
                 rho_relaxation_denominator, s_interp_max, phase, node_i,
                 visited, relaxed_with, in_domain>>

(* ------------------------------------------------------------------ *)
(* MeshAdaptor                                                         *)
(* ------------------------------------------------------------------ *)

\* largest simulation time and longest list of adaptation time points
MaxTime == 2
MaxTimePoints == 2
\* number of active cells of the triangulation
NumCells == 2

Times == 0 .. MaxTime
Cells == 1 .. NumCells

\* the enumerators of AdaptationStrategy, MarkingStrategy and
\* TimePointSelectionStrategy the dispatch names, and "unrecognized" for
\* any other value of the enumeration type
AdaptationStrategies == {"global_refinement", "random_adaptation", "unrecognized"}
MarkingStrategies == {"fixed_number", "unrecognized"}
TimePointSelectionStrategies == {"fixed_adaptation_time_points", "unrecognized"}

VARIABLES
  adaptation_strategy_,            \* MeshAdaptor::adaptation_strategy_
  marking_strategy_,               \* MeshAdaptor::marking_strategy_
  time_point_selection_strategy_,  \* MeshAdaptor::time_point_selection_strategy_
  adaptation_time_points_,         \* MeshAdaptor::adaptation_time_points_
  need_mesh_adaptation_,           \* MeshAdaptor::need_mesh_adaptation_
  flags,           \* the refine and coarsen flags of the triangulation's cells
  adaptor_op,      \* the MeshAdaptor operation called last, and its argument t
  adaptor_outcome  \* how it ended: "returned" or "threw"

adaptor_vars ==
  <<adaptation_strategy_, marking_strategy_, time_point_selection_strategy_,
    adaptation_time_points_, need_mesh_adaptation_, flags, adaptor_op,
    adaptor_outcome>>

\* std::remove_if followed by erase: the elements that are not among those
\* the predicate selects, in order
RemoveIf(points, selected) == SelectSeq(points, LAMBDA v : v \notin selected)

\* MeshAdaptor::MeshAdaptor
InitAdaptor ==
  /\ adaptation_strategy_ = "global_refinement"
  /\ marking_strategy_ = "fixed_number"
  /\ time_point_selection_strategy_ = "fixed_adaptation_time_points"
  /\ adaptation_time_points_ = <<>>
  /\ need_mesh_adaptation_ = FALSE
  /\ flags = [c \in Cells |-> "none"]
  /\ adaptor_op = Call("MeshAdaptor", 0)
  /\ adaptor_outcome = "returned"

\* ParameterAcceptor: the parameters added by the constructor are set from
\* the parameter file, once, before the adaptor is used
parse_parameters(adaptation, marking, selection, points) ==
  /\ adaptor_op.op = "MeshAdaptor"
  /\ adaptation_strategy_' = adaptation
  /\ marking_strategy_' = marking
  /\ time_point_selection_strategy_' = selection
  /\ adaptation_time_points_' = points
  /\ adaptor_op' = Call("parse_parameters", 0)
  /\ adaptor_outcome' = "returned"
  /\ UNCHANGED <<need_mesh_adaptation_, flags>>

\* a prepare that leaves the flag as it is
prepare_KeepsFlag(t) ==
  LET Outdated == {t_refinement \in Times : t > t_refinement}
  IN  /\ adaptation_time_points_' =
           IF time_point_selection_strategy_ = "fixed_adaptation_time_points"
           THEN RemoveIf(adaptation_time_points_, Outdated)
           ELSE adaptation_time_points_
      /\ UNCHANGED need_mesh_adaptation_
      /\ adaptor_op' = Call("prepare", t)
      /\ adaptor_outcome' = "returned"
      /\ UNCHANGED <<adaptation_strategy_, marking_strategy_,
                     time_point_selection_strategy_, flags>>

\* MeshAdaptor::prepare(t)
prepare(t) ==
  LET Outdated == {t_refinement \in Times : t > t_refinement}
  IN  /\ adaptation_time_points_' =
           IF time_point_selection_strategy_ = "fixed_adaptation_time_points"
           THEN RemoveIf(adaptation_time_points_, Outdated)
           ELSE adaptation_time_points_
      /\ need_mesh_adaptation_' = FALSE
      /\ adaptor_op' = Call("prepare", t)
      /\ adaptor_outcome' = "returned"
      /\ UNCHANGED <<adaptation_strategy_, marking_strategy_,
                     time_point_selection_strategy_, flags>>

\* an analyze whose default case does nothing
analyze_DefaultDoesNothing(t) ==
  /\ adaptor_op' = Call("analyze", t)
  /\ adaptor_outcome' = "returned"
  /\ UNCHANGED <<adaptation_strategy_, marking_strategy_,
                 time_point_selection_strategy_, adaptation_time_points_,
                 need_mesh_adaptation_, flags>>

\* an analyze whose predicate is that of prepare: t > t_refinement
analyze_RemovesOnlyEarlier(t) ==
  LET Past == {t_refinement \in Times : t > t_refinement}
      kept == RemoveIf(adaptation_time_points_, Past)
  IN  /\ adaptor_op' = Call("analyze", t)
      /\ IF time_point_selection_strategy_ = "fixed_adaptation_time_points"
         THEN /\ adaptation_time_points_' = kept
              /\ need_mesh_adaptation_' =
                   IF \E k \in DOMAIN adaptation_time_points_ :
                        adaptation_time_points_[k] \in Past
                   THEN TRUE
                   ELSE need_mesh_adaptation_
              /\ adaptor_outcome' = "returned"
         ELSE /\ adaptor_outcome' = "threw"
              /\ UNCHANGED <<adaptation_time_points_, need_mesh_adaptation_>>
      /\ UNCHANGED <<adaptation_strategy_, marking_strategy_,
                     time_point_selection_strategy_, flags>>

\* MeshAdaptor::analyze(state_vector, t, cycle)
analyze(t) ==
  LET Past == {t_refinement \in Times : ~(t < t_refinement)}
      kept == RemoveIf(adaptation_time_points_, Past)
  IN  /\ adaptor_op' = Call("analyze", t)
      /\ IF time_point_selection_strategy_ = "fixed_adaptation_time_points"
         THEN /\ adaptation_time_points_' = kept
              /\ need_mesh_adaptation_' =
                   IF \E k \in DOMAIN adaptation_time_points_ :
                        adaptation_time_points_[k] \in Past
                   THEN TRUE
                   ELSE need_mesh_adaptation_
              /\ adaptor_outcome' = "returned"
         ELSE /\ adaptor_outcome' = "threw"
              /\ UNCHANGED <<adaptation_time_points_, need_mesh_adaptation_>>
      /\ UNCHANGED <<adaptation_strategy_, marking_strategy_,
                     time_point_selection_strategy_, flags>>

\* MeshAdaptor::mark_cells_for_coarsening_and_refinement(triangulation);
\* marked are the flags GridRefinement::refine_and_coarsen_fixed_number
\* sets from the random indicators
mark_cells_for_coarsening_and_refinement(marked) ==
  /\ adaptor_op' = Call("mark_cells_for_coarsening_and_refinement", 0)
  /\ CASE adaptation_strategy_ = "global_refinement" ->
            /\ flags' = [c \in Cells |-> "refine"]
            /\ adaptor_outcome' = "returned"
       [] adaptation_strategy_ = "random_adaptation"
          /\ marking_strategy_ = "fixed_number" ->
            /\ flags' = marked
            /\ adaptor_outcome' = "returned"
       [] OTHER ->
            /\ adaptor_outcome' = "threw"
            /\ UNCHANGED flags
  /\ UNCHANGED <<adaptation_strategy_, marking_strategy_,
                 time_point_selection_strategy_, adaptation_time_points_,
                 need_mesh_adaptation_>>

(* ------------------------------------------------------------------ *)
(* Limiter::limit                                                      *)
(* ------------------------------------------------------------------ *)

\* largest newton_max_iter
MaxNewtonIter == 2

\* the arguments limit is called with
LimitBounds ==
  {Bounds(lo, hi, s) :
     lo \in {7 * (One \div 8), 3 * (One \div 2)},
     hi \in {3 * (One \div 2), 2 * One},
     s \in {One, 7 * (One \div 4), 2 * One}}
LimitStates == {U(1), U(2)}
LimitUpdates ==
  {State(One, 0, 0), State(-(One \div 4), 0, -One), State(0, One, 0)}
Tolerances == {1, One \div 4}
Intervals == {<<0, One>>, <<One \div 4, One>>}

VARIABLES
  limit_pc,    \* where limit stands: "idle", "newton" or "returned"
  limit_args,  \* bounds, U, P, newton_tolerance, newton_max_iter, t_min, t_max
  t_l,         \* the left end of the bracket, a state within the bounds
  t_r,         \* the right end of the bracket
  n_iter,      \* the Newton iterations done
  converged,   \* the iteration has met its stopping test
  t_star,      \* the coefficient limit returned
  feasible     \* the flag limit returned

limit_vars ==
  <<limit_pc, limit_args, t_l, t_r, n_iter, converged, t_star, feasible>>

LimitArgs(b, V, P, tol, max_iter, t_min, t_max) ==
  [bounds |-> b, U |-> V, P |-> P, newton_tolerance |-> tol,
   newton_max_iter |-> max_iter, t_min |-> t_min, t_max |-> t_max]

\* a coefficient left as it is
Box_Unclamped(t, t_min, t_max) == t

\* the clamp of a coefficient to [t_min, t_max]
Box(t, t_min, t_max) == Max(t_min, Min(t_max, t))

\* U + t P
Blend(a, t) == StateAdd(a.U, StateScale(a.P, t))

\* the right end of the density-feasible part of [t_min, t_max]: density is
\* affine in t, the divisions are guarded by Eps, and an empty part
\* collapses to t_min
DensityFeasibleEnd(a) ==
  LET rho_U == density(a.U)
      rho_P == density(a.P)
      den == FAdd(Abs(rho_P), Eps)
      Rho(t) == FAdd(rho_U, FMul(t, rho_P))
      t1 == IF a.bounds.rho_max < Rho(a.t_max)
            THEN FDiv(Abs(FSub(a.bounds.rho_max, rho_U)), den)
            ELSE a.t_max
      t2 == IF Rho(t1) < a.bounds.rho_min
            THEN FDiv(Abs(FSub(a.bounds.rho_min, rho_U)), den)
            ELSE t1
  IN  Box(t2, a.t_min, a.t_max)

\* Psi(t) = rho^(gamma + 1) (specific_entropy - s_min) at U + t P, for
\* gamma = 2: rho E - 1/2 |m|^2 - s_min rho^3
Psi(a, t) ==
  LET V == Blend(a, t)
  IN  FSub(FSub(FMul(V.rho, V.E), FMul(One \div 2, FMul(V.m, V.m))),
           FMul(a.bounds.s_min, fixed_power3(V.rho)))

\* the derivative of Psi with respect to t
dPsi(a, t) ==
  LET V == Blend(a, t)
      P == a.P
  IN  FSub(FSub(FAdd(FMul(P.rho, V.E), FMul(V.rho, P.E)), FMul(V.m, P.m)),
           FMul(FMul(3 * One, a.bounds.s_min),
                FMul(FMul(V.rho, V.rho), P.rho)))

\* the next point: the Newton step from the right end, or the midpoint of
\* the bracket when the Newton step leaves the bracket
NextPoint(a, l, r) ==
  LET d == dPsi(a, r)
      guarded == IF Abs(d) < Eps THEN Sign(d) * Eps ELSE d
      newton == FSub(r, FDiv(Psi(a, r), guarded))
  IN  IF l < newton /\ newton < r
      THEN newton
      ELSE FMul(One \div 2, FAdd(l, r))

\* a loop test that allows one iteration too many
NewtonContinues_OffByOne(a, n, l, r, done) ==
  n <= a.newton_max_iter /\ l < r /\ ~done

\* the loop continues while the budget lasts and the bracket is open
NewtonContinues(a, n, l, r, done) ==
  n < a.newton_max_iter /\ l < r /\ ~done

InitLimit ==
  /\ limit_pc = "idle"
  /\ limit_args = LimitArgs(Bounds(0, 0, 0), U(1), U(1), 0, 0, 0, 0)
  /\ t_l = 0
  /\ t_r = 0
  /\ n_iter = 0
  /\ converged = FALSE
  /\ t_star = 0
  /\ feasible = FALSE

\* limit(hyperbolic_system, bounds, U, P, newton_tolerance, newton_max_iter,
\* t_min, t_max), a static function of its arguments: the density step
limit(b, V, P, tol, max_iter, t_min, t_max) ==
  LET a == LimitArgs(b, V, P, tol, max_iter, t_min, t_max)
  IN  /\ limit_pc = "idle"
      /\ limit_args' = a
      /\ t_l' = t_min
      /\ t_r' = DensityFeasibleEnd(a)
      /\ n_iter' = 0
      /\ converged' = FALSE
      /\ limit_pc' = "newton"
      /\ t_star' = 0
      /\ feasible' = FALSE

\* one iteration of the safeguarded Newton method
newton_step ==
  /\ limit_pc = "newton"
  /\ NewtonContinues(limit_args, n_iter, t_l, t_r, converged)
  /\ n_iter' = n_iter + 1
  /\ IF Psi(limit_args, t_r) >= 0
     THEN /\ t_l' = t_r
          /\ converged' = TRUE
          /\ UNCHANGED t_r
     ELSE LET t == NextPoint(limit_args, t_l, t_r)
              psi == Psi(limit_args, t)
          IN  /\ t_l' = IF psi >= 0 THEN t ELSE t_l
              /\ t_r' = IF psi >= 0 THEN t_r ELSE t
              /\ converged' = (Abs(psi) < limit_args.newton_tolerance)
  /\ UNCHANGED <<limit_pc, limit_args, t_star, feasible>>

\* the loop is left: the left end of the bracket is returned
limit_return ==
  /\ limit_pc = "newton"
  /\ ~NewtonContinues(limit_args, n_iter, t_l, t_r, converged)
  /\ t_star' = Box(t_l, limit_args.t_min, limit_args.t_max)
  /\ feasible' =
       LET V == Blend(limit_args, limit_args.t_min)
       IN  /\ limit_args.bounds.rho_min <= density(V)
           /\ density(V) <= limit_args.bounds.rho_max
           /\ Psi(limit_args, limit_args.t_min) >= 0
  /\ limit_pc' = "returned"
  /\ UNCHANGED <<limit_args, t_l, t_r, n_iter, converged>>

(* ------------------------------------------------------------------ *)
(* Specifications                                                      *)
(* ------------------------------------------------------------------ *)

vars == <<limiter_vars, adaptor_vars, limit_vars>>
others_of_limiter == <<adaptor_vars, limit_vars>>
others_of_adaptor == <<limiter_vars, limit_vars>>
others_of_limit == <<limiter_vars, adaptor_vars>>

\* the members of a Limiter that no operation is called on
LimiterUnused ==
  /\ dim = 1
  /\ bounds_ = Bounds(0, 0, 0)
  /\ rho_relaxation_numerator = 0
  /\ rho_relaxation_denominator = 0
  /\ s_interp_max = 0
  /\ phase = "constructed"
  /\ node_i = 1
  /\ visited = EmptyBag
  /\ relaxed_with = NoArgs
  /\ in_domain = TRUE
  /\ last_op = Call("Limiter", 0)
  /\ outcome = "returned"

\* the bounds accumulator of one Limiter
Init == InitLimiter /\ InitAdaptor /\ InitLimit
Next ==
  \/ \E i \in Nodes : reset(i) /\ UNCHANGED others_of_limiter
  \/ \E js \in Nodes \ {node_i}, c \in ScaledCs :
       accumulate(js, c) /\ UNCHANGED others_of_limiter
  \/ \E hd_i \in CellMeasures, factor \in Factors :
       apply_relaxation(hd_i, factor) /\ UNCHANGED others_of_limiter
  \/ bounds /\ UNCHANGED others_of_limiter
Spec == Init /\ [][Next]_vars

\* the same with the invariant-domain check on the relaxed bounds
NextCore ==
  \/ Next
  \/ \E n \in Nodes : is_in_invariant_domain(n) /\ UNCHANGED others_of_limiter
SpecCore == Init /\ [][NextCore]_vars

\* one MeshAdaptor
InitA == LimiterUnused /\ InitAdaptor /\ InitLimit
NextA ==
  \/ \E a \in AdaptationStrategies, m \in MarkingStrategies,
        s \in TimePointSelectionStrategies,
        points \in SeqsUpTo(Times, MaxTimePoints) :
       parse_parameters(a, m, s, points) /\ UNCHANGED others_of_adaptor
  \/ \E t \in Times : prepare(t) /\ UNCHANGED others_of_adaptor
  \/ \E t \in Times : analyze(t) /\ UNCHANGED others_of_adaptor
  \/ \E marked \in [Cells -> {"none", "refine", "coarsen"}] :
       mark_cells_for_coarsening_and_refinement(marked) /\ UNCHANGED others_of_adaptor
SpecAdaptor == InitA /\ [][NextA]_vars

\* the calls of limit
InitL == LimiterUnused /\ InitAdaptor /\ InitLimit
NextL ==
  \/ \E b \in LimitBounds, V \in LimitStates, P \in LimitUpdates,
        tol \in Tolerances, max_iter \in 0 .. MaxNewtonIter,
        interval \in Intervals :
       /\ limit(b, V, P, tol, max_iter, interval[1], interval[2])
       /\ UNCHANGED others_of_limit
  \/ newton_step /\ UNCHANGED others_of_limit
  \/ limit_return /\ UNCHANGED others_of_limit
SpecLimit == InitL /\ [][NextL]_vars

(* ------------------------------------------------------------------ *)
(* What the driver has done since the last reset                       *)
(* ------------------------------------------------------------------ *)

\* the orders in which the entries of the bag B can be visited
RECURSIVE Orderings(_)
Orderings(B) ==
  IF B = EmptyBag THEN {<<>>}
  ELSE UNION {{<<e>> \o t : t \in Orderings(B (-) SetToBag({e}))} :
              e \in BagToSet(B)}

\* the members after reset(i) and one accumulate call per entry of order
RECURSIVE Accumulated(_, _)
Accumulated(i, order) ==
  IF order = <<>> THEN ResetMembers(i)
  ELSE LET n == Len(order)
           e == order[n]
       IN  AccumulateMembers(Accumulated(i, SubSeq(order, 1, n - 1)),
                             e.js, U(i), U(e.js), e.scaled_c_ij,
                             beta(i, e.js))

\* the edge estimates of the visited entries
Estimates ==
  {rho_ij_bar(U(node_i), U(e.js), e.scaled_c_ij) : e \in BagToSet(visited)}
SetMin(S) == CHOOSE v \in S : \A w \in S : v <= w
SetMax(S) == CHOOSE v \in S : \A w \in S : w <= v

\* the relaxation radius of the last apply_relaxation
LastRadius == relaxation_radius(dim, relaxed_with.hd_i, relaxed_with.factor)

(* ------------------------------------------------------------------ *)
(* C1                                                                  *)
(* ------------------------------------------------------------------ *)

\* C1 as stated: after reset, any number of accumulate calls and one
\* apply_relaxation, rho_min <= rho_max, whatever the arguments were.
C1_AnySequence ==
  phase = "relaxed" => bounds_.rho_min <= bounds_.rho_max

\* C1, amended: after reset, at least one accumulate call and one
\* apply_relaxation with a factor >= 0, rho_min <= rho_max provided the
\* relaxation radius r_i is at most 1 or no edge estimate is negative.
C1_RelaxedBoundsOrdered ==
  (/\ phase = "relaxed"
   /\ visited # EmptyBag
   /\ relaxed_with.factor >= 0
   /\ (LastRadius <= One \/ \A bar \in Estimates : bar >= 0))
  => bounds_.rho_min <= bounds_.rho_max

\* a relaxed state of a non-empty stencil, widened to a proper interval
C1_Witness ==
  /\ phase = "relaxed"
  /\ visited # EmptyBag
  /\ relaxed_with.factor > 0
  /\ \A bar \in Estimates : bar >= 0
  /\ LastRadius > One
  /\ bounds_.rho_min < bounds_.rho_max

(* ------------------------------------------------------------------ *)
(* C4                                                                  *)
(* ------------------------------------------------------------------ *)

\* every accumulate call since the last reset was given U_j = U_i
DegenerateStencil == \A e \in BagToSet(visited) : U(e.js) = U(node_i)

\* C4 as stated: if every accumulate call is given U_j = U_i, then
\* apply_relaxation with factor = 0 leaves rho_min = rho_max = density(U_i).
C4_AnyDegenerateStencil ==
  (phase = "relaxed" /\ relaxed_with.factor = 0 /\ DegenerateStencil)
  => /\ bounds_.rho_min = density(U(node_i))
     /\ bounds_.rho_max = density(U(node_i))

\* C4, amended: if at least one accumulate call is made and every one is
\* given U_j = U_i, a state of positive density, then apply_relaxation with
\* factor = 0 leaves rho_min = rho_max = density(U_i).
C4_DegenerateStencilZeroWidth ==
  (/\ phase = "relaxed"
   /\ relaxed_with.factor = 0
   /\ visited # EmptyBag
   /\ DegenerateStencil)
  => /\ bounds_.rho_min = density(U(node_i))
     /\ bounds_.rho_max = density(U(node_i))

\* a degenerate stencil of two entries, relaxed with factor 0
C4_Witness ==
  /\ phase = "relaxed"
  /\ relaxed_with.factor = 0
  /\ BagCardinality(visited) >= 2
  /\ DegenerateStencil
  /\ bounds_.rho_min = density(U(node_i))

(* ------------------------------------------------------------------ *)
(* C5                                                                  *)
(* ------------------------------------------------------------------ *)

\* C5 as stated: every order of the accumulate calls gives the same bounds
\* and the same relaxation temporaries, hence the same relaxed bounds.
C5_AnyOrderSameMembers ==
  /\ phase = "accumulating"
     => \A order \in Orderings(visited) : Accumulated(node_i, order) = Current
  /\ last_op.op = "apply_relaxation"
     => \A order \in Orderings(visited) :
          RelaxMembers(Accumulated(node_i, order), dim, relaxed_with.hd_i,
                       relaxed_with.factor) = Current

\* C5, amended: every order of the accumulate calls gives the same bounds
\* rho_min, rho_max, s_min and the same s_interp_max before the relaxation;
\* rho_relaxation_numerator and rho_relaxation_denominator are sums of
\* rounded additions, which depend on the order of the calls.
C5_AnyOrderSameBounds ==
  phase = "accumulating"
  => \A M \in {Accumulated(node_i, order) : order \in Orderings(visited)} :
       /\ M.bounds = bounds_
       /\ M.s_interp_max = s_interp_max

\* three accumulate calls, not all the same, whose estimates and entropies differ
C5_Witness ==
  /\ phase = "accumulating"
  /\ BagCardinality(visited) = 3
  /\ Cardinality(Orderings(visited)) = 6
  /\ Cardinality(Estimates) = 3
  /\ bounds_.rho_min < bounds_.rho_max

(* ------------------------------------------------------------------ *)
(* C6                                                                  *)
(* ------------------------------------------------------------------ *)

\* C6: in the state reset(i) leaves rho_min is the largest finite Number, rho_max is
\* 0, s_min is the precomputed specific entropy of node i and the three
\* relaxation temporaries are 0, whatever was called before; and the members
\* of a reset ... apply_relaxation sequence are those its own calls produce
\* from that state, in some order of its accumulate calls.
C6_ResetForgets ==
  /\ last_op.op = "reset"
     => /\ bounds_ = Bounds(FltMax, 0, specific_entropy(U(node_i)))
        /\ rho_relaxation_numerator = 0
        /\ rho_relaxation_denominator = 0
        /\ s_interp_max = 0
  /\ phase = "accumulating"
     => \E order \in Orderings(visited) : Accumulated(node_i, order) = Current
  /\ last_op.op = "apply_relaxation"
     => \E order \in Orderings(visited) :
          RelaxMembers(Accumulated(node_i, order), dim, relaxed_with.hd_i,
                       relaxed_with.factor) = Current

\* the state right after reset(i) for the last node, whose precomputed
\* entropy differs from the other nodes'
C6_Witness ==
  /\ last_op.op = "reset"
  /\ node_i = 4
  /\ bounds_ = Bounds(FltMax, 0, get_tensor(4).s)
  /\ get_tensor(4).s # get_tensor(1).s

(* ------------------------------------------------------------------ *)
(* C7                                                                  *)
(* ------------------------------------------------------------------ *)

\* the stencil of node i holds exactly the neighbours js1 and js2, each
\* visited once with scaled_c_ij = 0.5
ScenarioStencil(i, js1, js2) ==
  /\ phase = "accumulating"
  /\ node_i = i
  /\ visited = SetToBag({Entry(js1, One \div 2), Entry(js2, One \div 2)})

\* the neighbours have density 1.0, momenta 0 and 1 and viscosity weight 1.0
ScenarioNeighbours(i, js1, js2) ==
  /\ density(U(js1)) = One /\ momentum(U(js1)) = 0 /\ beta(i, js1) = One
  /\ density(U(js2)) = One /\ momentum(U(js2)) = One /\ beta(i, js2) = One

\* C7 as stated: before the relaxation rho_min is the least and rho_max the
\* greatest edge estimate, and two neighbours of density 1.0 with momenta 0
\* and 1 and scaled edge coefficient 0.5 give rho_min = 0.75, rho_max = 1.25.
C7_MinMaxOfEstimates ==
  /\ (phase = "accumulating" /\ visited # EmptyBag)
     => /\ bounds_.rho_min = SetMin(Estimates)
        /\ bounds_.rho_max = SetMax(Estimates)
  /\ \A i, js1, js2 \in Nodes :
       (ScenarioStencil(i, js1, js2) /\ ScenarioNeighbours(i, js1, js2))
       => /\ bounds_.rho_min = 3 * (One \div 4)
          /\ bounds_.rho_max = 5 * (One \div 4)

\* C7, amended: before the relaxation rho_min is the least edge estimate
\* and rho_max the greater of 0 and the greatest edge estimate; two
\* neighbours of density 1.0 with momenta 0 and 1 and scaled edge
\* coefficient 0.5 give estimates 0.25 apart (rho_min = 0.75, rho_max = 1.0
\* at a node of density 1.0 and momentum 0); 0.75 and 1.25 are the estimates
\* at the two ends of one edge between momenta 0 and 1.
C7_MinMaxOfEstimatesAndZero ==
  /\ (phase = "accumulating" /\ visited # EmptyBag)
     => /\ bounds_.rho_min = SetMin(Estimates)
        /\ bounds_.rho_max = Max(0, SetMax(Estimates))
  /\ \A i, js1, js2 \in Nodes :
       (ScenarioStencil(i, js1, js2) /\ ScenarioNeighbours(i, js1, js2))
       => /\ bounds_.rho_max - bounds_.rho_min = One \div 4
          /\ (density(U(i)) = One /\ momentum(U(i)) = 0)
             => /\ bounds_.rho_min = 3 * (One \div 4)
                /\ bounds_.rho_max = One
  /\ \A i, js \in Nodes :
       (/\ phase = "accumulating" /\ node_i = i
        /\ visited = SetToBag({Entry(js, One \div 2)})
        /\ density(U(i)) = One /\ density(U(js)) = One)
       => /\ (momentum(U(i)) = 0 /\ momentum(U(js)) = One)
             => bounds_.rho_min = 3 * (One \div 4)
          /\ (momentum(U(i)) = One /\ momentum(U(js)) = 0)
             => bounds_.rho_max = 5 * (One \div 4)

\* the scenario's stencil at a node of density 1.0 and momentum 0
C7_Witness ==
  \E i, js1, js2 \in Nodes :
    /\ ScenarioStencil(i, js1, js2)
    /\ ScenarioNeighbours(i, js1, js2)
    /\ momentum(U(i)) = 0
    /\ bounds_.rho_min = 3 * (One \div 4)

(* ------------------------------------------------------------------ *)
(* C2, C8                                                              *)
(* ------------------------------------------------------------------ *)

\* U lies in the invariant domain the bounds b describe
InInvariantDomain(b, V) ==
  /\ b.rho_min <= density(V)
  /\ density(V) <= b.rho_max
  /\ specific_entropy(V) >= b.s_min

\* C2: is_in_invariant_domain(bounds, U) returns, and returns true exactly
\* when rho_min <= density(U) <= rho_max and specific_entropy(U) >= s_min.
C2_ChecksInvariantDomain ==
  last_op.op = "is_in_invariant_domain"
  => /\ outcome = "returned"
     /\ in_domain = InInvariantDomain(bounds_, U(last_op.arg))

\* C8: no operation of the core raises an exception; every call returns.
C8_EveryCallReturns == outcome = "returned"

(* ------------------------------------------------------------------ *)
(* C9                                                                  *)
(* ------------------------------------------------------------------ *)

Unrecognized(strategy) == strategy = "unrecognized"

DensityInfeasible(a) ==
  LET rho == density(Blend(a, a.t_min))
  IN  rho < a.bounds.rho_min \/ a.bounds.rho_max < rho

\* the Newton budget ran out before the stopping test was met
BudgetExhausted ==
  /\ n_iter = limit_args.newton_max_iter
  /\ ~converged
  /\ t_l < t_r

\* C3: limit returns a coefficient t* with t_min <= t* <= t_max, also when
\* the density-feasible sub-interval is empty and when the Newton budget is
\* exhausted.
C3_CoefficientInRange ==
  limit_pc = "returned"
  => /\ limit_args.t_min <= t_star
     /\ t_star <= limit_args.t_max

\* limit has returned for an empty density-feasible sub-interval and a
\* lower end t_min > 0
C3_Witness ==
  /\ limit_pc = "returned"
  /\ DensityInfeasible(limit_args)
  /\ limit_args.t_min > 0
  /\ t_star = limit_args.t_min

\* C10: the Newton iteration does at most newton_max_iter steps; when the
\* budget is used up the loop is left and limit returns, and what it
\* returns then is the left end of the bracket, which is t_min or a point
\* where Psi >= 0.
C10_NewtonBudget ==
  /\ n_iter <= limit_args.newton_max_iter
  /\ (limit_pc = "newton" /\ n_iter = limit_args.newton_max_iter)
     => ~NewtonContinues(limit_args, n_iter, t_l, t_r, converged)
  /\ (limit_pc = "returned" /\ BudgetExhausted)
     => /\ t_star = t_l
        /\ (t_l = limit_args.t_min \/ Psi(limit_args, t_l) >= 0)

\* limit has returned with the budget used up and a bracket moved off t_min
C10_Witness ==
  /\ limit_pc = "returned"
  /\ BudgetExhausted
  /\ limit_args.newton_max_iter > 0
  /\ t_star > limit_args.t_min

(* ------------------------------------------------------------------ *)
(* C11                                                                 *)
(* ------------------------------------------------------------------ *)

\* the step is a call of apply_relaxation with a factor >= 0
RelaxationStep ==
  /\ phase = "accumulating"
  /\ phase' = "relaxed"
  /\ relaxed_with'.factor >= 0

\* C11 as stated: apply_relaxation with a factor >= 0 leaves rho_min no
\* larger and rho_max no smaller than they were, whatever the state before.
C11_AlwaysWidens ==
  [][RelaxationStep
     => /\ bounds_'.rho_min <= bounds_.rho_min
        /\ bounds_'.rho_max >= bounds_.rho_max]_vars

\* C11, amended: apply_relaxation with a factor >= 0 leaves rho_max no
\* smaller than it was, and leaves rho_min no larger than it was when
\* rho_min was not negative or the factor is 0.
C11_WidensNonNegative ==
  [][RelaxationStep
     => /\ bounds_'.rho_max >= bounds_.rho_max
        /\ (bounds_.rho_min >= 0 \/ relaxed_with'.factor = 0)
           => bounds_'.rho_min <= bounds_.rho_min]_vars

\* a relaxed state whose bounds lie strictly outside the edge estimates
C11_Witness ==
  /\ phase = "relaxed"
  /\ relaxed_with.factor > 0
  /\ visited # EmptyBag
  /\ SetMin(Estimates) >= 0
  /\ bounds_.rho_min < SetMin(Estimates)
  /\ bounds_.rho_max > SetMax(Estimates)

(* ------------------------------------------------------------------ *)
(* C12                                                                 *)
(* ------------------------------------------------------------------ *)

\* the step is a call of accumulate
AccumulateStep == phase = "accumulating" /\ last_op'.op = "accumulate"

\* C12: every accumulate call leaves rho_min no larger, rho_max no smaller
\* and s_min no larger than before the call; and between reset and
\* apply_relaxation s_min is at most the precomputed entropy of node i and
\* of every visited neighbour.
C12_AccumulateMonotone ==
  [][/\ AccumulateStep
        => /\ bounds_'.rho_min <= bounds_.rho_min
           /\ bounds_'.rho_max >= bounds_.rho_max
           /\ bounds_'.s_min <= bounds_.s_min
     /\ phase' = "accumulating"
        => /\ bounds_'.s_min <= get_tensor(node_i').s
           /\ \A e \in BagToSet(visited') :
                bounds_'.s_min <= get_tensor(e.js).s]_vars

\* two accumulate calls have moved all three bounds off their reset values
C12_Witness ==
  /\ phase = "accumulating"
  /\ last_op.op = "accumulate"
  /\ BagCardinality(visited) >= 2
  /\ bounds_.rho_min < FltMax
  /\ bounds_.rho_max > 0
  /\ bounds_.s_min < get_tensor(node_i).s
  /\ \E e \in BagToSet(visited) : bounds_.s_min < get_tensor(e.js).s

(* ------------------------------------------------------------------ *)
(* C13                                                                 *)
(* ------------------------------------------------------------------ *)

FixedTimePoints ==
  time_point_selection_strategy_ = "fixed_adaptation_time_points"

\* how often the time point v stands in the list points
Count(points, v) == Cardinality({k \in DOMAIN points : points[k] = v})

\* C13: with the fixed-adaptation-time-points strategy, analyze(t) removes
\* exactly the time points t_r <= t and sets the flag when there is one,
\* prepare(t) removes exactly the time points t_r < t and leaves the flag
\* unset; after analyze(t) no remaining time point is <= t, and once the
\* adaptor is in use no call brings a removed time point back.
C13_TimePointsConsumedOnce ==
  [][/\ (FixedTimePoints /\ adaptor_op'.op = "analyze")
        => /\ \A v \in Times :
                Count(adaptation_time_points_', v) =
                  IF v <= adaptor_op'.arg
                  THEN 0
                  ELSE Count(adaptation_time_points_, v)
           /\ \A k \in DOMAIN adaptation_time_points_' :
                adaptation_time_points_'[k] > adaptor_op'.arg
           /\ (Len(adaptation_time_points_') < Len(adaptation_time_points_))
              => need_mesh_adaptation_'
     /\ (FixedTimePoints /\ adaptor_op'.op = "prepare")
        => /\ \A v \in Times :
                Count(adaptation_time_points_', v) =
                  IF v < adaptor_op'.arg
                  THEN 0
                  ELSE Count(adaptation_time_points_, v)
           /\ ~need_mesh_adaptation_'
     /\ adaptor_op'.op # "parse_parameters"
        => \A v \in Times :
             Count(adaptation_time_points_', v)
               <= Count(adaptation_time_points_, v)]_vars

\* analyze has consumed a time point and left a later one in the list
C13_Witness ==
  /\ FixedTimePoints
  /\ adaptor_op.op = "analyze"
  /\ need_mesh_adaptation_
  /\ adaptation_time_points_ # <<>>
  /\ \A k \in DOMAIN adaptation_time_points_ :
       adaptation_time_points_[k] > adaptor_op.arg

(* ------------------------------------------------------------------ *)
(* C14                                                                 *)
(* ------------------------------------------------------------------ *)

\* C14: need_mesh_adaptation_ is false after construction and after every
\* prepare; analyze(t) leaves it true when it was true and otherwise sets it
\* exactly when it consumes a time point t_r <= t; no other call changes it.
C14_FlagTracksConsumption ==
  /\ ~need_mesh_adaptation_
  /\ [][/\ adaptor_op'.op = "prepare" => ~need_mesh_adaptation_'
        /\ adaptor_op'.op = "analyze"
           => need_mesh_adaptation_' =
                \/ need_mesh_adaptation_
                \/ /\ FixedTimePoints
                   /\ \E k \in DOMAIN adaptation_time_points_ :
                        adaptation_time_points_[k] <= adaptor_op'.arg
        /\ adaptor_op'.op \notin {"prepare", "analyze"}
           => UNCHANGED need_mesh_adaptation_]_vars

\* analyze has consumed the last time points of the list
C14_Witness ==
  /\ adaptor_op.op = "analyze"
  /\ adaptor_outcome = "returned"
  /\ need_mesh_adaptation_
  /\ adaptation_time_points_ = <<>>
====
